---- MODULE Spec2Model ----
(***************************************************************************)
(* Amazon Distributed Runner (adr/adr.py): the batch publisher (queue,     *)
(* find_root, upload_batch, queue_job), the SQS queue, the S3 bucket and   *)
(* the worker loop (process, process_job, get_job, download_batch,         *)
(* upload_files, cache_contents, restore_contents).                        *)
(*                                                                         *)
(* Strings are sequences of tokens: a file name is <<"d", ".nc">>, a path  *)
(* is a sequence of such segments, a command is a sequence of tokens.      *)
(* Logging calls change no state and are left out.                         *)
(***************************************************************************)
EXTENDS Integers, Sequences, FiniteSets, TLC

(* ------------------------------ bounds -------------------------------- *)

\* queue() calls the publisher makes in one behaviour
MaxPublish == 1
\* longest list of input files handed to queue()
MaxFiles == 2
\* polls of one get_job call (the default of `retry` is 30)
Retry == 1
\* upload_files calls one caller makes directly in one behaviour
MaxCalls == 2
\* job messages sent to the queue in one behaviour
MaxMessages == 2

(* ------------------------------ strings ------------------------------- *)

Min(S) == CHOOSE x \in S : \A y \in S : x <= y

IsSuffix(p, s) ==
    /\ Len(p) <= Len(s)
    /\ SubSeq(s, Len(s) - Len(p) + 1, Len(s)) = p

IsPrefix(p, s) ==
    /\ Len(p) <= Len(s)
    /\ SubSeq(s, 1, Len(p)) = p

\* sep.join(list): the elements of a list of strings with sep between them
RECURSIVE Join(_, _)
Join(sep, list) ==
    IF list = << >> THEN << >>
    ELSE IF Len(list) = 1 THEN list[1]
    ELSE list[1] \o sep \o Join(sep, Tail(list))

\* s.split(sep) for a one-token separator: always at least one element
RECURSIVE SplitAcc(_, _, _)
SplitAcc(s, sep, cur) ==
    IF s = << >> THEN << cur >>
    ELSE IF Head(s) = sep THEN << cur >> \o SplitAcc(Tail(s), sep, << >>)
    ELSE SplitAcc(Tail(s), sep, Append(cur, Head(s)))

Split(s, sep) == SplitAcc(s, sep, << >>)

\* l.strip(): leading and trailing whitespace removed
IsSpace(t) == t \in {" ", "\n"}

RECURSIVE LStrip(_)
LStrip(s) == IF s # << >> /\ IsSpace(Head(s)) THEN LStrip(Tail(s)) ELSE s

RECURSIVE RStrip(_)
RStrip(s) ==
    IF s # << >> /\ IsSpace(s[Len(s)]) THEN RStrip(SubSeq(s, 1, Len(s) - 1)) ELSE s

Strip(s) == LStrip(RStrip(s))

\* re.search(p, s) for the patterns used here, a literal followed by "$":
\* the pattern <<".nc">> stands for '\.nc$'
re_search(p, s) == IsSuffix(p, s)

\* any([re.search(p, s) for p in patterns])
AnyMatch(patterns, s) == \E i \in DOMAIN patterns : re_search(patterns[i], s)

\* command.format(arg) for templates with auto-numbered fields "{}":
\* one argument fills one field, a second field raises IndexError
Fields(t) == {i \in DOMAIN t : t[i] = "{}"}

RECURSIVE Format(_, _)
Format(t, arg) ==
    IF t = << >> THEN << >>
    ELSE IF Head(t) = "{}" THEN arg \o Format(Tail(t), arg)
    ELSE << Head(t) >> \o Format(Tail(t), arg)

(* ------------------------------- paths -------------------------------- *)

\* f.split(os.path.sep) of an absolute path: the first segment is ''
SegData == <<"data">>
SegRun == <<"run">>
SegAlt == <<"alt">>
NameA == <<"a", ".txt">>
NameB == <<"b", ".txt", " ">>
NameX == <<"x", ".nc">>
NameE == <<"e", ".txt">>
NameTop == <<"top", ".txt">>

\* the publisher's local files
PubFiles ==
    { << << >>, SegData, SegRun, NameA >>,
      << << >>, SegData, SegRun, NameB >>,
      << << >>, SegData, SegRun, NameX >>,
      << << >>, SegData, SegAlt, NameE >>,
      << << >>, NameTop >> }

\* os.path.sep.join(segments): the path as one string
PathStr(segs) == Join(<<"/">>, segs)

\* the path '.', the current directory of a worker process, and a directory
\* that is not the current one
Dot == << <<".">> >>
Cwd == << << >>, <<"work">> >>
DataDir == << << >>, <<"data">> >>

\* os.path.join(dir, name)
path_join(dir, name) == Append(dir, name)

RECURSIVE NoDots(_)
NoDots(path) ==
    IF path = << >> THEN << >>
    ELSE IF Head(path) = <<".">> THEN NoDots(Tail(path))
    ELSE << Head(path) >> \o NoDots(Tail(path))

\* the file a path names: a relative path starts at the current directory
abspath(path) ==
    IF path # << >> /\ Head(path) = << >> THEN path ELSE Cwd \o NoDots(path)

\* os.path.isdir(path) on the publisher's disk
IsDir(path) ==
    /\ PathStr(path) # << >>
    /\ \E f \in PubFiles : Len(path) < Len(f) /\ IsPrefix(path, f)

\* os.path.relpath(fpath, root) for fpath under root
RelPath(fpath, root) == SubSeq(fpath, Len(root) + 1, Len(fpath))

(* ------------------------------- state -------------------------------- *)

VARIABLES
    pub,            \* the publisher: its position in queue() and its locals
    published,      \* queue() calls made so far
    uuids,          \* uuid4 values drawn so far
    pubtmp,         \* archives lying on the publisher's disk
    bucket,         \* the runner's S3 bucket: key -> object
    sqs,            \* the runner's SQS queue: the messages ever sent
    stop_on_empty,  \* the flag process() was started with
    workingdir,     \* the working directory process() was started with
    pc,             \* each worker's position in process()/process_job()
    tries,          \* each worker's loop index i in get_job
    msg,            \* the message a worker's get_job holds (0: none)
    job,            \* the parsed message process_job works on
    disk,           \* each worker's working directory: batch_id -> files
    cachefile,      \* the lines of each batch directory's .contents
    up,             \* each caller's upload_files activation: its arguments,
                    \* the matching files its walk has yet to visit, the
                    \* file whose key it found missing
    calls,          \* calls a caller has made: of upload_files, and direct
                    \* calls of get_job and key_exists
    obs,            \* what each caller sees of a call: get_job's receive
                    \* attempts and sleeps and the value a direct call
                    \* returned, the batches downloaded, the last script run
    returned,       \* history: the messages each worker's get_job returned
    executed,       \* history: the messages whose script each worker ran
    uploaded,       \* history: how often each caller put a key, per call
    aws,            \* the account: the names of its queues and buckets, and
                    \* the runners that have running instances
    adm             \* the client that administers runners: its position,
                    \* the runner it works on, what its last call returned

vars == << pub, published, uuids, pubtmp, bucket, sqs, stop_on_empty,
           workingdir,
           pc, tries, msg, job, disk, cachefile, up,
           calls, obs, returned, executed, uploaded, aws, adm >>

admvars == << aws, adm >>
pubvars == << pub, published, uuids, pubtmp >>
workvars == << stop_on_empty, workingdir, pc, tries, msg, job, disk, cachefile,
               up, calls, obs, returned, executed, uploaded >>

RunnerId == "r1"
Workers == {"w1", "w2"}

\* str(uuid.uuid4()): a value never drawn before
Uuid4(n) == "u" \o ToString(n + 1)

\* f :> v added to or replaced in a function
Put(f, k, v) == [x \in DOMAIN f \cup {k} |-> IF x = k THEN v ELSE f[x]]

\* how often an event is in a history
Count(h, e) == IF e \in DOMAIN h THEN h[e] ELSE 0

(* ----------------------------- publisher ------------------------------ *)

\* zip(*parts): as many columns as the shortest path has segments
ZipLen(parts) ==
    IF parts = << >> THEN 0 ELSE Min({Len(parts[i]) : i \in DOMAIN parts})

\* [len(set(x)) <= 1 for x in zip(*parts)]: the columns that are False
FalseColumns(parts) ==
    {k \in 1..ZipLen(parts) :
        Cardinality({parts[i][k] : i \in DOMAIN parts}) > 1}

\* mutant: an empty list is let through
FindRootRaisesNonEmpty(files) == files # << >> /\ FalseColumns(files) = {}

\* find_root: .index(False) raises ValueError when no column is False
FindRootRaises(files) == FalseColumns(files) = {}

\* mutant: the directory of the first file
find_root_dirname(files) ==
    IF files = << >> THEN << >> ELSE SubSeq(files[1], 1, Len(files[1]) - 1)

\* find_root: parts[0][:ix], ix the (0-based) index of the first False
\* column (no value is returned when .index raises: '' stands in for it)
find_root(files) ==
    IF FalseColumns(files) = {} THEN << >>
    ELSE SubSeq(files[1], 1, Min(FalseColumns(files)) - 1)

\* upload_batch: exclude_patterns=['\.log$', '\.nc$', '\.pyc$']
ExcludePatterns == << <<".log">>, <<".nc">>, <<".pyc">> >>

\* mutant: zh.write raises nothing
UploadBatchRaisesNever(path) == FALSE

\* upload_batch: zh.write('' or a missing path) raises OSError
UploadBatchRaises(path) == ~IsDir(path) /\ path \notin PubFiles

\* mutant: no file is excluded
ArchiveMembersAll(path) ==
    IF IsDir(path)
    THEN {RelPath(f, path) : f \in {g \in PubFiles : IsPrefix(path, g)}}
    ELSE {<< path[Len(path)] >>}

\* upload_batch: the archive's members, without the leading batch_id
ArchiveMembers(path) ==
    IF IsDir(path)
    THEN {RelPath(f, path) :
            f \in {g \in PubFiles : IsPrefix(path, g)
                       /\ ~AnyMatch(ExcludePatterns, PathStr(g))}}
    ELSE {<< path[Len(path)] >>}

\* upload_batch: zpath = abspath(join(path, '..', zfile))
ZipPath(path, batch_id) ==
    (IF Len(path) > 1 THEN SubSeq(path, 1, Len(path) - 1) ELSE << <<"cwd..">> >>)
        \o << <<batch_id, ".zip">> >>

\* the key '{}.zip'.format(batch_id)
ZipKey(batch_id) == <<batch_id, ".zip">>

\* the key '{}/{}'.format(batch_id, fname)
FileKey(batch_id, fname) == <<batch_id, "/">> \o fname

ZipObject(members) ==
    [kind |-> "zip", members |-> members, by |-> "publisher", puts |-> 1]

StringAttr(v) == [StringValue |-> v, DataType |-> "String"]

\* mutant: the test is inverted
TruthyNot(v) == v = << >>

\* queue_job: `if preprocessing:`; None, '' and [] are false
Truthy(v) == v # << >>

\* queue_job: the message sent; empty (or None) optional arguments add nothing
QueueJobMessage(runner_id, batch_id, command, store_patterns, preprocessing, postprocessing) ==
    LET opt == {<<"PreProcessing", preprocessing>>,
                <<"PostProcessing", postprocessing>>,
                <<"Store", Join(<<"|">>, store_patterns)>>}
        given == {o \in opt :
                    \/ o[1] = "PreProcessing" /\ Truthy(preprocessing)
                    \/ o[1] = "PostProcessing" /\ Truthy(postprocessing)
                    \/ o[1] = "Store" /\ Truthy(store_patterns)}
        names == {"Runner", "Batch", "Command"} \cup {o[1] : o \in given}
    IN  [body |-> "execution",
         attrs |-> [n \in names |->
                      StringAttr(
                        IF n = "Runner" THEN << runner_id >>
                        ELSE IF n = "Batch" THEN << batch_id >>
                        ELSE IF n = "Command" THEN command
                        ELSE (CHOOSE o \in given : o[1] = n)[2])],
         state |-> "visible",
         holder |-> "none"]

Request(files, command, preprocessing, postprocessing, store_patterns) ==
    [files |-> files, command |-> command, preprocessing |-> preprocessing,
     postprocessing |-> postprocessing, store_patterns |-> store_patterns]

NoRequest == Request(<< >>, << >>, << >>, << >>, << >>)

PubIdle ==
    [pc |-> "idle", req |-> NoRequest, root |-> << >>, batch_id |-> "",
     i |-> 0, err |-> "", puts |-> 0, sent |-> << >>]

\* queue.send_message: SQS rejects a message attribute whose StringValue is
\* empty, and the call raises ClientError
SendRaises(m) == \E n \in DOMAIN m.attrs : m.attrs[n].StringValue = << >>

\* the messages queue_job has sent
JobMessages(q) == {i \in DOMAIN q : q[i].body = "execution"}

\* queue(): files made absolute, find_root
QueueCall(req) ==
    /\ pub.pc \in {"idle", "done", "failed"}
    /\ published < MaxPublish
    /\ Cardinality(JobMessages(sqs)) + Len(req.files) <= MaxMessages
    /\ published' = published + 1
    /\ IF FindRootRaises(req.files)
       THEN pub' = [PubIdle EXCEPT !.pc = "failed", !.req = req,
                                   !.err = "ValueError"]
       ELSE pub' = [PubIdle EXCEPT !.pc = "upload", !.req = req,
                                   !.root = find_root(req.files)]
    /\ UNCHANGED << admvars, uuids, pubtmp, bucket, sqs, workvars >>

\* mutant: the archive is not in the bucket when upload_batch returns
UploadBatchLater ==
    /\ pub.pc = "upload"
    /\ uuids' = uuids + 1
    /\ pub' = [pub EXCEPT !.pc = "enqueue", !.batch_id = Uuid4(uuids),
                          !.i = 1, !.puts = @ + 1]
    /\ UNCHANGED << admvars, published, pubtmp, bucket, sqs, workvars >>

\* queue(): upload_batch(s3, runner_id, root)
UploadBatch ==
    /\ pub.pc = "upload"
    /\ uuids' = uuids + 1
    /\ LET batch_id == Uuid4(uuids)
           zpath == ZipPath(pub.root, batch_id)
       IN  IF UploadBatchRaises(pub.root)
           THEN /\ pubtmp' = pubtmp \cup {zpath}
                /\ pub' = [pub EXCEPT !.pc = "failed", !.err = "OSError"]
                /\ UNCHANGED bucket
           ELSE /\ bucket' = Put(bucket, ZipKey(batch_id),
                                  ZipObject(ArchiveMembers(pub.root)))
                /\ pubtmp' = pubtmp
                /\ pub' = [pub EXCEPT !.pc = "enqueue", !.batch_id = batch_id,
                                      !.i = 1, !.puts = @ + 1]
    /\ UNCHANGED << admvars, published, sqs, workvars >>

\* queue(): one turn of `for fpath in files`, relpath, format, queue_job
QueueJob ==
    /\ pub.pc = "enqueue"
    /\ pub.i <= Len(pub.req.files)
    /\ LET fpath == PathStr(RelPath(pub.req.files[pub.i], pub.root))
           m == QueueJobMessage(RunnerId, pub.batch_id,
                                Format(pub.req.command, fpath),
                                pub.req.store_patterns, pub.req.preprocessing,
                                pub.req.postprocessing)
       IN  IF Cardinality(Fields(pub.req.command)) > 1
           THEN /\ pub' = [pub EXCEPT !.pc = "failed", !.err = "IndexError"]
                /\ UNCHANGED sqs
           ELSE IF SendRaises(m)
           THEN /\ pub' = [pub EXCEPT !.pc = "failed", !.err = "ClientError"]
                /\ UNCHANGED sqs
           ELSE /\ sqs' = Append(sqs, m)
                /\ pub' = [pub EXCEPT !.i = @ + 1, !.sent = Append(@, Len(sqs) + 1),
                                      !.pc = IF pub.i = Len(pub.req.files)
                                             THEN "done" ELSE "enqueue"]
    /\ UNCHANGED << admvars, published, uuids, pubtmp, bucket, workvars >>

(* ------------------------------- worker ------------------------------- *)

NameContents == <<".contents">>
NameRun == <<"run", ".sh">>
NameD == <<"d", ".nc">>
NameC == <<"c", ".out">>
NameBStripped == <<"b", ".txt">>

\* what a job's script may leave in the batch directory: nothing, or a
\* result, a scratch file and a file named as a line of .contents reads back
OutSets == { {}, {<<NameD>>, <<NameC>>, <<NameBStripped>>} }

\* os.path.abspath(os.path.join(root, fname)) under the working directory
AbsPath(batch_id, rel) == PathStr(Cwd \o << <<batch_id>> >> \o rel)

\* mutant: the data type is returned in place of the value
parse_message_types(message) ==
    [k \in DOMAIN message.attrs |-> << message.attrs[k].DataType >>]

\* parse_message: the attributes flattened to their StringValue
parse_message(message) ==
    [k \in DOMAIN message.attrs |-> message.attrs[k].StringValue]

NoJob == [k \in {} |-> << >>]

has_key(d, k) == k \in DOMAIN d

\* queue.receive_messages(MaxNumberOfMessages=1): a visible message (or
\* none); the message received is in flight and hidden from other receivers
Visible(q) == {i \in DOMAIN q : q[i].state = "visible"}

\* mutant: the message received stays visible
ReceiveMessagePeek(q, i, w) == q

ReceiveMessage(q, i, w) ==
    [q EXCEPT ![i].state = "inflight", ![i].holder = w]

\* mutants: the message is not deleted; the message is released instead
DeleteMessageNot(q, i) == q

DeleteMessageRelease(q, i) == [q EXCEPT ![i].state = "visible"]

\* message.delete()
DeleteMessage(q, i) == [q EXCEPT ![i].state = "deleted"]

\* mutant: the filter lets every message through
IsJobMessageAny(m) == TRUE

\* get_job: messages = [m for m in messages if m.body == 'execution']
IsJobMessage(m) == m.body = "execution"

\* the error codes of a store that cannot answer: access denied, internal
\* error
StoreFaults == {"403", "500"}

\* s3.Object(runner_id, key).load() on a store that answers: the object's
\* metadata (200), or a ClientError with code 404
Load(s3, key) == IF key \in DOMAIN s3 THEN "200" ELSE "404"

\* mutant: every error is taken for a missing key
KeyExistsResultSwallow(code) == IF code = "200" THEN "True" ELSE "False"

\* key_exists: False in the except branch for code 404, `raise e` for any
\* other code, True after a load() that raised nothing
KeyExistsResult(code) ==
    IF code = "200" THEN "True"
    ELSE IF code = "404" THEN "False"
    ELSE "raise"

\* mutant: every key is reported missing
key_exists_never(s3, key) == FALSE

\* key_exists on a store that answers
key_exists(s3, key) == KeyExistsResult(Load(s3, key)) = "True"

\* mutant: every file of the walk is taken
MatchingAll(files, include_patterns) == files

\* upload_files: the files of the walk whose name matches a pattern
Matching(files, include_patterns) ==
    {f \in files : AnyMatch(include_patterns, f[Len(f)])}

\* cache_contents: .contents is created first, so the walk lists it too
CacheLines(batch_id, files) ==
    {AbsPath(batch_id, f) : f \in files \cup {<<NameContents>>}}

\* mutant: nothing is unlinked
restore_contents_keep(batch_id, files, lines) == files

\* restore_contents: cache = [l.strip() for l in fp.readlines()], and
\* every file whose path is not in cache is unlinked
restore_contents(batch_id, files, lines) ==
    {f \in files : AbsPath(batch_id, f) \in {Strip(l) : l \in lines}}

\* an upload_files activation; `present` remembers the keys the bucket held
\* when it began
Upload(batch_id, include_patterns, todo, overwrite, direct, present) ==
    [batch_id |-> batch_id, include_patterns |-> include_patterns,
     todo |-> todo, cur |-> << >>,
     overwrite |-> overwrite, direct |-> direct, present |-> present]

NoUpload == Upload("", << >>, {}, FALSE, FALSE, {})

\* process(): the next turn of `while True`
NextTurn(w) ==
    /\ pc' = [pc EXCEPT ![w] = "poll"]
    /\ tries' = [tries EXCEPT ![w] = 0]
    /\ msg' = [msg EXCEPT ![w] = 0]
    /\ job' = [job EXCEPT ![w] = NoJob]

\* no script has been run
NoRun == [lines |-> << >>, mode |-> "", cwd |-> << >>, status |-> 0]

\* what a caller has seen before it calls anything
NoObs ==
    [direct |-> FALSE, receives |-> 0, sleeps |-> 0, ret |-> "",
     key |-> << >>, code |-> "", fetched |-> [b \in {} |-> 0], ran |-> NoRun,
     dl |-> "", zips |-> {}]

\* mutant: the loop takes one turn more
MorePollsOneMore(i) == i < Retry

\* get_job: `for i in range(retry)` has a turn left after turn i
MorePolls(i) == i + 1 < Retry

\* mutant: the flag is not looked at
StopsNever(flag) == FALSE

\* process(): `if stop_on_empty: break`
Stops(flag) == flag

\* mutant: the batch directory is never found
path_exists_never(d, batch_id) == FALSE

\* process_job: os.path.exists(batchpath)
path_exists(d, batch_id) == batch_id \in DOMAIN d

\* get_job called on its own
GetJobCall(w) ==
    /\ pc[w] = "api"
    /\ calls[w] < MaxCalls
    /\ calls' = [calls EXCEPT ![w] = @ + 1]
    /\ obs' = [obs EXCEPT ![w].direct = TRUE, ![w].receives = 0,
                          ![w].sleeps = 0, ![w].ret = ""]
    /\ NextTurn(w)
    /\ UNCHANGED << admvars, pubvars, bucket, sqs, stop_on_empty, workingdir, disk, cachefile,
                    up, returned, executed, uploaded >>

\* get_job: receive_messages yields a job message
Receive(w) ==
    /\ pc[w] = "poll"
    /\ \E i \in Visible(sqs) :
         /\ IsJobMessage(sqs[i])
         /\ sqs' = ReceiveMessage(sqs, i, w)
         /\ msg' = [msg EXCEPT ![w] = i]
         /\ pc' = [pc EXCEPT ![w] = "delete"]
    /\ obs' = [obs EXCEPT ![w].receives = @ + 1]
    /\ UNCHANGED << admvars, pubvars, bucket, stop_on_empty, workingdir, tries, job, disk,
                    cachefile, up, calls, returned, executed, uploaded >>

\* get_job: receive_messages yields nothing, or a message the filter drops;
\* sleep, and after `retry` polls return None: a direct caller has the
\* result; process_job returns False and process() stops or polls again
ReceiveNone(w) ==
    /\ pc[w] = "poll"
    /\ \/ Visible(sqs) = {} /\ UNCHANGED sqs
       \/ \E i \in Visible(sqs) :
            /\ ~IsJobMessage(sqs[i])
            /\ sqs' = ReceiveMessage(sqs, i, w)
    /\ IF MorePolls(tries[w])
       THEN /\ tries' = [tries EXCEPT ![w] = @ + 1]
            /\ obs' = [obs EXCEPT ![w].receives = @ + 1, ![w].sleeps = @ + 1]
            /\ UNCHANGED << pc, msg, job >>
       ELSE IF obs[w].direct
       THEN /\ pc' = [pc EXCEPT ![w] = "api"]
            /\ tries' = [tries EXCEPT ![w] = 0]
            /\ obs' = [obs EXCEPT ![w].receives = @ + 1, ![w].sleeps = @ + 1,
                                  ![w].ret = "None"]
            /\ UNCHANGED << msg, job >>
       ELSE /\ obs' = [obs EXCEPT ![w].receives = 0, ![w].sleeps = 0]
            /\ IF Stops(stop_on_empty)
               THEN /\ pc' = [pc EXCEPT ![w] = "stopped"]
                    /\ UNCHANGED << tries, msg, job >>
               ELSE NextTurn(w)
    /\ UNCHANGED << admvars, pubvars, bucket, stop_on_empty, workingdir, disk, cachefile,
                    up, calls, returned, executed, uploaded >>

\* get_job: message.delete(), return parse_message(message): a direct
\* caller has the job; process_job: is the batch directory there?
Delete(w) ==
    /\ pc[w] = "delete"
    /\ sqs' = DeleteMessage(sqs, msg[w])
    /\ LET message == parse_message(sqs[msg[w]])
       IN  /\ job' = [job EXCEPT ![w] = message]
           /\ IF obs[w].direct
              THEN /\ pc' = [pc EXCEPT ![w] = "api"]
                   /\ obs' = [obs EXCEPT ![w].ret = "job"]
              ELSE /\ pc' = [pc EXCEPT ![w] =
                              IF path_exists(disk[w], message["Batch"][1])
                              THEN "execute" ELSE "fetch"]
                   /\ obs' = [obs EXCEPT ![w].receives = 0, ![w].sleeps = 0]
    /\ tries' = [tries EXCEPT ![w] = 0]
    /\ returned' = [returned EXCEPT ![w] = Append(@, msg[w])]
    /\ UNCHANGED << admvars, pubvars, bucket, stop_on_empty, workingdir, msg, disk,
                    cachefile, up, calls, executed, uploaded >>

\* a blob that is no archive, and an archive that zipfile opens but cannot
\* extract to the end; `members` are the files extracted before the error
JunkObject == [kind |-> "junk", members |-> {}, by |-> "other", puts |-> 1]

CorruptObject(members) ==
    [kind |-> "badzip", members |-> members, by |-> "other", puts |-> 1]

\* download_batch: zipfile.is_zipfile(zpath)
is_zipfile(blob) == blob.kind \in {"zip", "badzip"}

\* download_batch: zh.extractall(path) raises BadZipfile
ExtractRaises(blob) == blob.kind = "badzip"

\* process_job: download_batch (download, extract, unlink the archive) and
\* cache_contents; an error ends process() with the exception. obs keeps
\* how download_batch ended (dl) and the archive copies left in the working
\* directory (zips)
Fetch(w) ==
    /\ pc[w] = "fetch"
    /\ LET batch_id == job[w]["Batch"][1]
           zfile == ZipKey(batch_id)
           downloaded == [obs EXCEPT ![w].fetched =
                            Put(@, batch_id, Count(@, batch_id) + 1),
                                     ![w].dl = "None"]
       IN  IF ~key_exists(bucket, zfile)
           THEN \* download_file raises ClientError
                /\ pc' = [pc EXCEPT ![w] = "crashed"]
                /\ obs' = [obs EXCEPT ![w].dl = "ClientError"]
                /\ UNCHANGED << disk, cachefile >>
           ELSE IF is_zipfile(bucket[zfile]) /\ ExtractRaises(bucket[zfile])
           THEN \* extractall raises, os.unlink(zpath) is not reached
                /\ pc' = [pc EXCEPT ![w] = "crashed"]
                /\ obs' = [downloaded EXCEPT ![w].dl = "BadZipfile",
                                             ![w].zips = @ \cup {batch_id}]
                /\ disk' = IF bucket[zfile].members = {} THEN disk
                           ELSE [disk EXCEPT ![w] =
                                   Put(@, batch_id, bucket[zfile].members)]
                /\ UNCHANGED cachefile
           ELSE IF ~is_zipfile(bucket[zfile]) \/ bucket[zfile].members = {}
           THEN \* nothing is extracted, download_batch returns;
                \* cache_contents' open raises IOError
                /\ pc' = [pc EXCEPT ![w] = "crashed"]
                /\ obs' = downloaded
                /\ UNCHANGED << disk, cachefile >>
           ELSE /\ disk' = [disk EXCEPT ![w] =
                     Put(@, batch_id,
                         bucket[zfile].members \cup {<<NameContents>>})]
                /\ cachefile' = [cachefile EXCEPT ![w] =
                     Put(@, batch_id, CacheLines(batch_id, bucket[zfile].members))]
                /\ obs' = downloaded
                /\ pc' = [pc EXCEPT ![w] = "execute"]
    /\ UNCHANGED << admvars, pubvars, bucket, sqs, stop_on_empty, workingdir, tries, msg, job,
                    up, calls, returned, executed, uploaded >>

\* process_job: the `if message.has_key('Store')` that guards both
\* upload_files and restore_contents
StoresData(message) == has_key(message, "Store")

\* process(): process_job(sqs, s3, runner_id, workingdir='.'), whatever
\* workingdir process() was given
process_job_workingdir(dir) == Dot

\* batchpath = os.path.join(workingdir, batch_id)
BatchPath(batch_id) ==
    PathStr(abspath(path_join(process_job_workingdir(workingdir), << batch_id >>)))

Shebang == <<"#!/bin/bash">>

\* mutant: the PostProcessing line is left out
ScriptNoPost(message) ==
    << Shebang, << >> >>
    \o (IF has_key(message, "PreProcessing")
        THEN << message["PreProcessing"] >> ELSE << >>)
    \o << message["Command"] >>

\* process_job: the lines written to run.sh; '#!/bin/bash\n\n' is the
\* shebang line and an empty line
Script(message) ==
    << Shebang, << >> >>
    \o (IF has_key(message, "PreProcessing")
        THEN << message["PreProcessing"] >> ELSE << >>)
    \o << message["Command"] >>
    \o (IF has_key(message, "PostProcessing")
        THEN << message["PostProcessing"] >> ELSE << >>)

\* open(shpath, 'w'): the file is created without execute permission
Written(lines) == [lines |-> lines, mode |-> "0644"]

\* os.chmod(shpath, 0744)
chmod(f, mode) == [f EXCEPT !.mode = mode]

\* subprocess.call('./run.sh', cwd=batchpath, shell=True): the file the
\* shell is given as it is at that moment, and the exit status it ends with
subprocess_call(f, cwd, status) ==
    [lines |-> f.lines, mode |-> f.mode, cwd |-> cwd, status |-> status]

\* mutant: a status other than 0 raises, as subprocess.check_call does
CallRaisesNonZero(status) == status # 0

\* subprocess.call returns the exit status, which process_job drops
CallRaises(status) == FALSE

\* process_job: write run.sh, chmod, subprocess.call; the script adds files
\* to the batch directory. Then upload_files is entered, or True returned
Execute(w, status) ==
    /\ pc[w] = "execute"
    /\ \E outs \in OutSets :
         LET batch_id == job[w]["Batch"][1]
             shfile == chmod(Written(Script(job[w])), "0744")
             files == disk[w][batch_id] \cup {<<NameRun>>} \cup outs
         IN  /\ disk' = [disk EXCEPT ![w][batch_id] = files]
             /\ executed' = [executed EXCEPT ![w] = Append(@, msg[w])]
             /\ obs' = [obs EXCEPT ![w].ran =
                          subprocess_call(shfile, BatchPath(batch_id), status)]
             /\ IF CallRaises(status)
                THEN /\ pc' = [pc EXCEPT ![w] = "crashed"]
                     /\ UNCHANGED << tries, msg, job, up, calls >>
                ELSE IF StoresData(job[w])
                THEN /\ up' = [up EXCEPT ![w] =
                          Upload(batch_id, Split(job[w]["Store"], "|"),
                                 Matching(files, Split(job[w]["Store"], "|")),
                                 FALSE, FALSE, DOMAIN bucket)]
                     /\ calls' = [calls EXCEPT ![w] = @ + 1]
                     /\ pc' = [pc EXCEPT ![w] = "store"]
                     /\ UNCHANGED << tries, msg, job >>
                ELSE /\ NextTurn(w)
                     /\ UNCHANGED << up, calls >>
    /\ UNCHANGED << admvars, pubvars, bucket, sqs, stop_on_empty, workingdir, cachefile,
                    returned, uploaded >>

\* upload_files: `if not key_exists(s3, runner_id, key) or overwrite`
MayUpload(s3, key, overwrite) == ~key_exists(s3, key) \/ overwrite

\* upload_files: the walk reaches a matching file and asks for its key
KeyExists(w) ==
    /\ pc[w] = "store"
    /\ \E f \in up[w].todo :
         IF MayUpload(bucket, FileKey(up[w].batch_id, f[Len(f)]), up[w].overwrite)
         THEN /\ up' = [up EXCEPT ![w].cur = f]
              /\ pc' = [pc EXCEPT ![w] = "put"]
         ELSE /\ up' = [up EXCEPT ![w].todo = @ \ {f}]
              /\ UNCHANGED pc
    /\ UNCHANGED << admvars, pubvars, bucket, sqs, stop_on_empty, workingdir, tries, msg, job,
                    disk, cachefile, calls, returned, executed, uploaded, obs >>

FileObject(s3, key, w) ==
    [kind |-> "file", members |-> {}, by |-> w,
     puts |-> IF key \in DOMAIN s3 THEN s3[key].puts + 1 ELSE 1]

\* upload_files: s3.Object(runner_id, key).upload_file(fpath)
UploadFile(w) ==
    /\ pc[w] = "put"
    /\ LET f == up[w].cur
           key == FileKey(up[w].batch_id, f[Len(f)])
       IN  /\ bucket' = Put(bucket, key, FileObject(bucket, key, w))
           /\ uploaded' = [uploaded EXCEPT ![w] =
                 LET e == [key |-> key, call |-> calls[w],
                           overwrite |-> up[w].overwrite]
                 IN  Put(@, e, Count(@, e) + 1)]
           /\ up' = [up EXCEPT ![w].todo = @ \ {f}, ![w].cur = << >>]
           /\ pc' = [pc EXCEPT ![w] = "store"]
    /\ UNCHANGED << admvars, pubvars, sqs, stop_on_empty, workingdir, tries, msg, job, disk,
                    cachefile, calls, returned, executed, obs >>

\* restore_contents without waiting for upload_files to return
RestoreEarly(w) ==
    /\ pc[w] = "store"
    /\ ~up[w].direct
    /\ LET batch_id == up[w].batch_id
       IN  disk' = [disk EXCEPT ![w][batch_id] =
                      IF <<NameContents>> \in @
                      THEN restore_contents(batch_id, @, cachefile[w][batch_id])
                      ELSE @]
    /\ up' = [up EXCEPT ![w] = NoUpload]
    /\ NextTurn(w)
    /\ UNCHANGED << admvars, pubvars, bucket, sqs, stop_on_empty, workingdir, cachefile,
                    calls, returned, executed, uploaded, obs >>

\* process_job: upload_files has returned; restore_contents, return True
Restore(w) ==
    /\ pc[w] = "store"
    /\ up[w].todo = {}
    /\ ~up[w].direct
    /\ LET batch_id == up[w].batch_id
       IN  disk' = [disk EXCEPT ![w][batch_id] =
                      IF <<NameContents>> \in @
                      THEN restore_contents(batch_id, @, cachefile[w][batch_id])
                      ELSE @]
    /\ up' = [up EXCEPT ![w] = NoUpload]
    /\ NextTurn(w)
    /\ UNCHANGED << admvars, pubvars, bucket, sqs, stop_on_empty, workingdir, cachefile,
                    calls, returned, executed, uploaded, obs >>

\* process(): an exception raised in process_job leaves `while True`, as
\* neither function has an except clause; the worker process ends
Raise(w, code) ==
    /\ pc' = [pc EXCEPT ![w] = "crashed"]
    /\ obs' = [obs EXCEPT ![w].code = code]

\* download_batch: download_file raises a ClientError of the store
FetchFails(w, fault) ==
    /\ pc[w] = "fetch"
    /\ Raise(w, fault)
    /\ UNCHANGED << admvars, pubvars, bucket, sqs, stop_on_empty, workingdir, tries, msg, job,
                    disk, cachefile, up, calls, returned, executed, uploaded >>

\* upload_files: key_exists raises the ClientError that is not a 404
KeyExistsFails(w, fault) ==
    /\ pc[w] = "store"
    /\ up[w].todo # {}
    /\ KeyExistsResult(fault) = "raise"
    /\ Raise(w, fault)
    /\ UNCHANGED << admvars, pubvars, bucket, sqs, stop_on_empty, workingdir, tries, msg, job,
                    disk, cachefile, up, calls, returned, executed, uploaded >>

\* upload_files: upload_file raises an error of the store
UploadFileFails(w, fault) ==
    /\ pc[w] = "put"
    /\ Raise(w, fault)
    /\ UNCHANGED << admvars, pubvars, bucket, sqs, stop_on_empty, workingdir, tries, msg, job,
                    disk, cachefile, up, calls, returned, executed, uploaded >>

\* key_exists called on its own; the store answers, or fails with `fault`
KeyExistsCall(w, key, fault) ==
    /\ pc[w] = "api"
    /\ calls[w] < MaxCalls
    /\ calls' = [calls EXCEPT ![w] = @ + 1]
    /\ LET code == IF fault = "" THEN Load(bucket, key) ELSE fault
       IN  obs' = [obs EXCEPT ![w] =
                     [NoObs EXCEPT !.direct = TRUE, !.key = key, !.code = code,
                                   !.ret = KeyExistsResult(code)]]
    /\ UNCHANGED << admvars, pubvars, bucket, sqs, stop_on_empty, workingdir, pc, tries, msg, job,
                    disk, cachefile, up, returned, executed, uploaded >>

\* upload_files called on its own, on a batch directory of the caller
UploadFilesCall(w, batch_id, include_patterns, overwrite) ==
    /\ pc[w] = "api"
    /\ calls[w] < MaxCalls
    /\ batch_id \in DOMAIN disk[w]
    /\ calls' = [calls EXCEPT ![w] = @ + 1]
    /\ up' = [up EXCEPT ![w] =
                Upload(batch_id, include_patterns,
                       Matching(disk[w][batch_id], include_patterns),
                       overwrite, TRUE, DOMAIN bucket)]
    /\ pc' = [pc EXCEPT ![w] = "store"]
    /\ UNCHANGED << admvars, pubvars, bucket, sqs, stop_on_empty, workingdir, tries, msg, job,
                    disk, cachefile, returned, executed, uploaded, obs >>

\* upload_files returns to a direct caller
UploadFilesReturn(w) ==
    /\ pc[w] = "store"
    /\ up[w].todo = {}
    /\ up[w].direct
    /\ pc' = [pc EXCEPT ![w] = "api"]
    /\ up' = [up EXCEPT ![w] = NoUpload]
    /\ UNCHANGED << admvars, pubvars, bucket, sqs, stop_on_empty, workingdir, tries, msg, job,
                    disk, cachefile, calls, returned, executed, uploaded, obs >>

(* --------------------------- administration --------------------------- *)

\* a queue and a bucket of the account that no runner made
Foreign == "other"

\* the account of a runner in use: its queue and its bucket exist
AwsRunner == [queues |-> {RunnerId}, buckets |-> {RunnerId}, running |-> {}]

AdmIdle ==
    [pc |-> "idle", id |-> "", calls |-> 0, ret |-> {}, err |-> "",
     done |-> << >>, last |-> [a \in {} |-> ""]]

\* q.url of the queue named `name`
QueueUrl(name) ==
    <<"https:", "/", "/", "sqs", ".", "amazonaws", ".", "com", "/",
      "account", "/", name>>

\* os.path.split(p)[1]: what follows the last "/"
Basename(p) ==
    LET slashes == {i \in DOMAIN p : p[i] = "/"}
        last == IF slashes = {} THEN 0
                ELSE CHOOSE i \in slashes : \A j \in slashes : j <= i
    IN  SubSeq(p, last + 1, Len(p))

\* mutant: no queue is created
create_queue_not(a, runner_id) == a

\* create_queue: sqs.create_queue(QueueName=runner_id)
create_queue(a, runner_id) == [a EXCEPT !.queues = @ \cup {runner_id}]

\* create_bucket: s3.create_bucket(Bucket=runner_id, ...)
create_bucket(a, runner_id) == [a EXCEPT !.buckets = @ \cup {runner_id}]

\* create: runner_id = str(uuid.uuid4())
CreateCall ==
    /\ adm.pc = "idle"
    /\ adm.calls < MaxCalls
    /\ uuids' = uuids + 1
    /\ adm' = [adm EXCEPT !.pc = "create_queue", !.id = Uuid4(uuids),
                          !.calls = @ + 1, !.err = "", !.done = << >>]
    /\ UNCHANGED << pub, published, pubtmp, bucket, sqs, workvars, aws >>

\* create: create_queue
CreateQueue ==
    /\ adm.pc = "create_queue"
    /\ aws' = create_queue(aws, adm.id)
    /\ adm' = [adm EXCEPT !.pc = "create_bucket"]
    /\ UNCHANGED << pubvars, bucket, sqs, workvars >>

\* create: create_bucket, return runner_id
CreateBucket ==
    /\ adm.pc = "create_bucket"
    /\ aws' = create_bucket(aws, adm.id)
    /\ adm' = [adm EXCEPT !.pc = "idle", !.ret = {adm.id},
                          !.done = <<"create", adm.id>>]
    /\ UNCHANGED << pubvars, bucket, sqs, workvars >>

\* create: s3.create_bucket raises, the queue stays
CreateBucketFails ==
    /\ adm.pc = "create_bucket"
    /\ adm' = [adm EXCEPT !.pc = "idle", !.err = "ClientError"]
    /\ UNCHANGED << pubvars, bucket, sqs, workvars, aws >>

\* destroy(runner_id)
DestroyCall(runner_id) ==
    /\ adm.pc = "idle"
    /\ adm.calls < MaxCalls
    /\ adm' = [adm EXCEPT !.pc = "delete_queue", !.id = runner_id,
                          !.calls = @ + 1, !.err = "", !.done = << >>]
    /\ UNCHANGED << pubvars, bucket, sqs, workvars, aws >>

\* destroy: sqs.get_queue_by_name raises for a queue that does not exist;
\* queue.delete()
DeleteQueue ==
    /\ adm.pc = "delete_queue"
    /\ IF adm.id \notin aws.queues
       THEN /\ adm' = [adm EXCEPT !.pc = "idle", !.err = "QueueDoesNotExist"]
            /\ UNCHANGED aws
       ELSE /\ aws' = [aws EXCEPT !.queues = @ \ {adm.id}]
            /\ adm' = [adm EXCEPT !.pc = "terminate"]
    /\ UNCHANGED << pubvars, bucket, sqs, workvars >>

\* destroy: instance.terminate() for the instances tagged with the runner
TerminateWorkers ==
    /\ adm.pc = "terminate"
    /\ aws' = [aws EXCEPT !.running = @ \ {adm.id}]
    /\ adm' = [adm EXCEPT !.pc = "clean"]
    /\ UNCHANGED << pubvars, bucket, sqs, workvars >>

\* mutant: every object is deleted
CleanedAll(key) == TRUE

\* destroy: obj.key.endswith('.zip') or obj.key.startswith('_')
Cleaned(key) == key[Len(key)] = ".zip" \/ key[1] = "_"

\* destroy: the objects of the runner's bucket that are archives or
\* registrations are deleted; the bucket and its other objects are kept.
\* `bucket` is what the bucket of RunnerId holds, no other bucket of the
\* account is given objects
CleanBucket ==
    /\ adm.pc = "clean"
    /\ bucket' = IF adm.id = RunnerId /\ adm.id \in aws.buckets
                 THEN [k \in {x \in DOMAIN bucket : ~Cleaned(x)} |-> bucket[k]]
                 ELSE bucket
    /\ adm' = [adm EXCEPT !.pc = "idle", !.done = <<"destroy", adm.id>>]
    /\ UNCHANGED << pubvars, sqs, workvars, aws >>

\* mutant: every bucket is returned
get_runners_buckets(a) == a.buckets

\* get_runners: queues = [os.path.split(q.url)[1] for q in sqs.queues.all()],
\* then the buckets whose name is in queues
get_runners(a) ==
    LET queues == {Basename(QueueUrl(q)) : q \in a.queues}
    IN  {b \in a.buckets : <<b>> \in queues}

GetRunners ==
    /\ adm.pc = "idle"
    /\ adm.calls < MaxCalls
    /\ adm' = [adm EXCEPT !.calls = @ + 1, !.ret = get_runners(aws),
                          !.err = "", !.done = <<"get_runners", "">>]
    /\ UNCHANGED << pubvars, bucket, sqs, workvars, aws >>

\* prefix='_workers/': the prefix of the keys that register workers
WorkerPrefix == <<"_", "workers", "/">>

\* an argument `workers`: a list of addresses, or one address as a string
ListArg(l) == [type |-> "list", val |-> l]
StrArg(a) == [type |-> "str", val |-> a]

\* isiterable: iter(lst) raises TypeError for neither a list nor a string
isiterable(arg) == arg.type \in {"list", "str"}

\* `for worker in workers`: the elements of a list, the characters of a
\* string
Items(arg) ==
    IF arg.type = "list" THEN arg.val
    ELSE [i \in DOMAIN arg.val |-> << arg.val[i] >>]

\* register_workers, deregister_workers:
\* if not isiterable(workers): workers = [workers]
WorkerList(arg) == IF ~isiterable(arg) THEN << arg.val >> ELSE Items(arg)

\* ''.join((prefix, worker)) for every worker of the loop
WorkerKeys(arg, prefix) ==
    {prefix \o WorkerList(arg)[i] : i \in DOMAIN WorkerList(arg)}

\* s3.Object(runner_id, key).put(Body='')
EmptyObject == [kind |-> "file", members |-> {}, by |-> "admin", puts |-> 1]

\* the addresses a call names: the elements of a list, or the string
Named(arg) ==
    IF arg.type = "list" THEN {arg.val[i] : i \in DOMAIN arg.val}
    ELSE {arg.val}

Noted(last, arg, op) ==
    [a \in DOMAIN last \cup Named(arg) |->
        IF a \in Named(arg) THEN op ELSE last[a]]

\* register_workers on the runner's bucket
RegisterWorkers(arg) ==
    /\ adm.pc = "idle"
    /\ adm.calls < MaxCalls
    /\ RunnerId \in aws.buckets
    /\ bucket' = [k \in DOMAIN bucket \cup WorkerKeys(arg, WorkerPrefix) |->
                    IF k \in WorkerKeys(arg, WorkerPrefix) THEN EmptyObject
                    ELSE bucket[k]]
    /\ adm' = [adm EXCEPT !.calls = @ + 1, !.err = "",
                          !.done = <<"register_workers", RunnerId>>,
                          !.last = Noted(@, arg, "registered")]
    /\ UNCHANGED << pubvars, sqs, workvars, aws >>

\* deregister_workers on the runner's bucket; deleting a key that is not
\* there is no error
DeregisterWorkers(arg) ==
    /\ adm.pc = "idle"
    /\ adm.calls < MaxCalls
    /\ RunnerId \in aws.buckets
    /\ bucket' = [k \in DOMAIN bucket \ WorkerKeys(arg, WorkerPrefix) |->
                    bucket[k]]
    /\ adm' = [adm EXCEPT !.calls = @ + 1, !.err = "",
                          !.done = <<"deregister_workers", RunnerId>>,
                          !.last = Noted(@, arg, "deregistered")]
    /\ UNCHANGED << pubvars, sqs, workvars, aws >>

\* get_workers: os.path.split(obj.key)[1] for the objects of the runner's
\* bucket whose key begins with prefix and is not prefix
get_workers(a, s3, prefix) ==
    IF RunnerId \notin a.buckets THEN {}
    ELSE {Basename(k) : k \in {x \in DOMAIN s3 : IsPrefix(prefix, x) /\ x # prefix}}

GetWorkers ==
    /\ adm.pc = "idle"
    /\ adm' = [adm EXCEPT !.ret = get_workers(aws, bucket, WorkerPrefix),
                          !.err = "", !.done = <<"get_workers", RunnerId>>]
    /\ UNCHANGED << pubvars, bucket, sqs, workvars, aws >>

(* ----------------------------- environment ---------------------------- *)

\* the worker process is terminated from outside
Terminate(w) ==
    /\ pc[w] \in {"poll", "delete", "fetch", "execute", "store", "put"}
    /\ pc' = [pc EXCEPT ![w] = "terminated"]
    /\ UNCHANGED << admvars, pubvars, bucket, sqs, stop_on_empty, workingdir, tries, msg, job,
                    disk, cachefile, up, calls, returned, executed, uploaded, obs >>

\* fabfile.stop, `pkill adr`, while download_batch extracts the archive:
\* some of its files are in the batch directory, cache_contents has not run
StopInFetch(w) ==
    /\ pc[w] = "fetch"
    /\ key_exists(bucket, ZipKey(job[w]["Batch"][1]))
    /\ \E part \in SUBSET bucket[ZipKey(job[w]["Batch"][1])].members :
         /\ part # {}
         /\ disk' = [disk EXCEPT ![w] = Put(@, job[w]["Batch"][1], part)]
    /\ pc' = [pc EXCEPT ![w] = "terminated"]
    /\ UNCHANGED << admvars, pubvars, bucket, sqs, stop_on_empty, workingdir, tries, msg,
                    job, cachefile, up, calls, returned, executed, uploaded, obs >>

\* fabfile.start, `adr process`, on a node whose process has ended: a new
\* process() over the working directory the old one left
Start(w) ==
    /\ pc[w] \in {"terminated", "crashed", "stopped"}
    /\ up' = [up EXCEPT ![w] = NoUpload]
    /\ NextTurn(w)
    /\ UNCHANGED << admvars, pubvars, bucket, sqs, stop_on_empty, workingdir, disk,
                    cachefile, calls, returned, executed, uploaded, obs >>

\* SQS: the visibility timeout of a message in flight runs out. A running
\* get_job deletes the message it received long before that
Redeliver(i) ==
    /\ i \in DOMAIN sqs
    /\ sqs[i].state = "inflight"
    /\ ~(pc[sqs[i].holder] = "delete" /\ msg[sqs[i].holder] = i)
    /\ sqs' = [sqs EXCEPT ![i].state = "visible", ![i].holder = "none"]
    /\ UNCHANGED << admvars, pubvars, bucket, workvars >>

\* S3: another writer puts a blob under the key of a batch archive
ReplaceBlob(key, blob) ==
    /\ key \in DOMAIN bucket
    /\ bucket[key].kind = "zip"
    /\ bucket' = [bucket EXCEPT ![key] = blob]
    /\ UNCHANGED << admvars, pubvars, sqs, workvars >>

\* a message another sender has put into the runner's queue
OtherMessage ==
    [body |-> "other", attrs |-> [n \in {} |-> StringAttr(<< >>)],
     state |-> "visible", holder |-> "none"]

(* --------------------------- specifications --------------------------- *)

TemplModel == <<"model", " ", "{}">>
TemplMake == <<"make">>
TemplTwo == <<"cp", " ", "{}", " ", "{}">>
Templates == {TemplModel, TemplMake, TemplTwo}
PreCmd == <<"source env">>
PostCmd == <<"echo done">>
StoreNc == << <<".nc">> >>
StoreNcOut == << <<".nc">>, <<".out">> >>
StoreLog == << <<".log">> >>
\* store_patterns=['']: one pattern, the empty one
StoreEmpty == << << >> >>
\* store_patterns=['\.nc$|\.log$']: one pattern, an alternation
StoreAlt == << <<".nc", "|", ".log">> >>

FileA == << << >>, SegData, SegRun, NameA >>
FileB == << << >>, SegData, SegRun, NameB >>
FileX == << << >>, SegData, SegRun, NameX >>

FileLists == UNION {[1..n -> PubFiles] : n \in 0..MaxFiles}

\* the requests of the publisher on its own: every list of files, and
\* every combination of the other arguments
PubRequests ==
    {Request(fs, TemplModel, PreCmd, << >>, StoreNc) : fs \in FileLists}
    \cup {Request(<<FileA, FileB>>, t, pre, post, st) :
            t \in Templates, pre \in {<< >>, PreCmd}, post \in {<< >>, PostCmd},
            st \in {<< >>, StoreNc, StoreNcOut, StoreEmpty}}

\* the requests made while workers run: batches of two and of three jobs,
\* with and without Store
WorkRequests ==
    {Request(fs, TemplModel, PreCmd, << >>, st) :
        fs \in {<<FileA, FileB>>, <<FileA, FileB, FileX>>},
        st \in {<< >>, StoreNc}}

\* the requests whose jobs are looked at one by one: with and without
\* PreProcessing, PostProcessing and Store
JobRequests ==
    {Request(<<FileA, FileB>>, TemplModel, pre, post, st) :
        pre \in {<< >>, PreCmd}, post \in {<< >>, PostCmd},
        st \in {<< >>, StoreNc}}

\* the requests made while get_job is called on its own
PollRequests ==
    {Request(fs, TemplModel, PreCmd, << >>, StoreNc) :
        fs \in {<<FileA, FileB>>, <<FileA, FileB, FileX>>}}

\* the requests whose store patterns are followed to upload_files: one
\* pattern, two patterns, and a pattern that holds a '|' of its own
RoundRequests ==
    {Request(<<FileA, FileB>>, TemplModel, << >>, << >>, st) :
        st \in {StoreNc, StoreNcOut, StoreAlt}}

\* nobody administers runners; the runner's queue and bucket exist
InitAdm ==
    /\ aws = AwsRunner
    /\ adm = AdmIdle

InitStores ==
    /\ pub = PubIdle
    /\ published = 0
    /\ uuids = 0
    /\ pubtmp = {}
    /\ sqs = << >>
    /\ InitAdm

InitWorkers ==
    /\ tries = [w \in Workers |-> 0]
    /\ msg = [w \in Workers |-> 0]
    /\ job = [w \in Workers |-> NoJob]
    /\ up = [w \in Workers |-> NoUpload]
    /\ calls = [w \in Workers |-> 0]
    /\ obs = [w \in Workers |-> NoObs]
    /\ returned = [w \in Workers |-> << >>]
    /\ executed = [w \in Workers |-> << >>]
    /\ uploaded = [w \in Workers |-> [e \in {} |-> 0]]

\* a runner with an empty queue and bucket, a publisher, two workers in
\* process()
Init ==
    /\ InitStores
    /\ InitWorkers
    /\ bucket = [k \in {} |-> 0]
    /\ stop_on_empty \in BOOLEAN
    /\ workingdir = Dot
    /\ pc = [w \in Workers |-> "poll"]
    /\ disk = [w \in Workers |-> [b \in {} |-> {}]]
    /\ cachefile = [w \in Workers |-> [b \in {} |-> {}]]

\* the working directories process() is started with
WorkingDirs == {Dot, DataDir}

\* workers started in either working directory
InitDir ==
    /\ InitStores
    /\ InitWorkers
    /\ bucket = [k \in {} |-> 0]
    /\ stop_on_empty \in BOOLEAN
    /\ workingdir \in WorkingDirs
    /\ pc = [w \in Workers |-> "poll"]
    /\ disk = [w \in Workers |-> [b \in {} |-> {}]]
    /\ cachefile = [w \in Workers |-> [b \in {} |-> {}]]

\* two callers of get_job and a publisher; the queue may hold the message
\* of another sender
InitPoll ==
    /\ pub = PubIdle
    /\ published = 0
    /\ uuids = 0
    /\ pubtmp = {}
    /\ sqs \in {<< >>, << OtherMessage >>}
    /\ InitAdm
    /\ InitWorkers
    /\ bucket = [k \in {} |-> 0]
    /\ stop_on_empty = FALSE
    /\ workingdir = Dot
    /\ pc = [w \in Workers |-> "api"]
    /\ disk = [w \in Workers |-> [b \in {} |-> {}]]
    /\ cachefile = [w \in Workers |-> [b \in {} |-> {}]]

\* two callers of key_exists and a publisher
InitKey == InitPoll /\ sqs = << >>

\* a runner without workers and a client that registers workers
InitReg == InitPoll /\ sqs = << >>

\* the publisher alone
InitPub ==
    /\ InitStores
    /\ InitWorkers
    /\ bucket = [k \in {} |-> 0]
    /\ stop_on_empty = FALSE
    /\ workingdir = Dot
    /\ pc = [w \in Workers |-> "poll"]
    /\ disk = [w \in Workers |-> [b \in {} |-> {}]]
    /\ cachefile = [w \in Workers |-> [b \in {} |-> {}]]

\* two callers of upload_files, each with its own copy of a batch
\* directory after a job ran in it; the key of d.nc may be stored already
StoreBatch == "u0"
StoreDirs ==
    { {<<NameA>>, <<NameContents>>, <<NameD>>, <<NameC>>},
      {<<NameA>>, <<NameContents>>, <<NameD>>, <<<<"sub">>, NameD>>} }

InitStore ==
    /\ InitStores
    /\ InitWorkers
    /\ bucket \in {[k \in {} |-> 0],
                    [k \in {FileKey(StoreBatch, NameD)} |->
                        [kind |-> "file", members |-> {}, by |-> "earlier",
                         puts |-> 1]]}
    /\ stop_on_empty = FALSE
    /\ workingdir = Dot
    /\ pc = [w \in Workers |-> "api"]
    /\ disk \in [Workers -> {[b \in {StoreBatch} |-> d] : d \in StoreDirs}]
    /\ cachefile = [w \in Workers |-> [b \in {} |-> {}]]

AddrA == <<"7", ".", "8">>
AddrB == <<"7", ".", "9">>

\* a bucket that holds an archive, a result and a registration
UsedBucket ==
    [k \in {ZipKey(StoreBatch), FileKey(StoreBatch, NameD),
            WorkerPrefix \o AddrA} |->
        IF k = ZipKey(StoreBatch) THEN ZipObject({<<NameA>>})
        ELSE [kind |-> "file", members |-> {}, by |-> "earlier", puts |-> 1]]

\* a client that administers runners, in an account that may hold the
\* runner's queue and bucket and a queue and a bucket of other use
InitAdmin ==
    /\ pub = PubIdle
    /\ published = 0
    /\ uuids = 0
    /\ pubtmp = {}
    /\ sqs = << >>
    /\ InitWorkers
    /\ aws \in {[queues |-> q, buckets |-> b, running |-> r] :
                   q \in SUBSET {RunnerId, Foreign},
                   b \in SUBSET {RunnerId, Foreign},
                   r \in {{}, {RunnerId}}}
    /\ adm = AdmIdle
    /\ bucket = IF RunnerId \in aws.buckets THEN UsedBucket
                ELSE [k \in {} |-> 0]
    /\ stop_on_empty = FALSE
    /\ workingdir = Dot
    /\ pc = [w \in Workers |-> "api"]
    /\ disk = [w \in Workers |-> [b \in {} |-> {}]]
    /\ cachefile = [w \in Workers |-> [b \in {} |-> {}]]

Publisher(requests) ==
    \/ \E req \in requests : QueueCall(req)
    \/ UploadBatch
    \/ QueueJob

Worker(w) ==
    \/ Receive(w)
    \/ ReceiveNone(w)
    \/ Delete(w)
    \/ Fetch(w)
    \/ Execute(w, 0)
    \/ KeyExists(w)
    \/ UploadFile(w)
    \/ Restore(w)

\* the exit statuses of the scripts
ExitCodes == {0, 1}

\* a worker whose scripts end with any status
JobWorker(w) ==
    \/ Receive(w)
    \/ ReceiveNone(w)
    \/ Delete(w)
    \/ Fetch(w)
    \/ \E status \in ExitCodes : Execute(w, status)
    \/ KeyExists(w)
    \/ UploadFile(w)
    \/ Restore(w)

\* a worker whose store may fail
FaultWorker(w) ==
    \/ Worker(w)
    \/ \E fault \in StoreFaults :
          \/ FetchFails(w, fault)
          \/ KeyExistsFails(w, fault)
          \/ UploadFileFails(w, fault)

\* a caller of get_job on its own
Poller(w) ==
    \/ GetJobCall(w)
    \/ Receive(w)
    \/ ReceiveNone(w)
    \/ Delete(w)

Caller(w) ==
    \/ \E p \in {StoreNc, StoreNcOut, StoreLog}, o \in BOOLEAN :
          UploadFilesCall(w, StoreBatch, p, o)
    \/ KeyExists(w)
    \/ UploadFile(w)
    \/ UploadFilesReturn(w)

Next == Publisher(WorkRequests) \/ \E w \in Workers : Worker(w)

NextJob == Publisher(JobRequests) \/ \E w \in Workers : JobWorker(w)

\* the keys asked for: the archive of the first batch and one of its results
ProbeKeys == {ZipKey(Uuid4(0)), FileKey(Uuid4(0), NameD)}

NextKey ==
    \/ Publisher(PollRequests)
    \/ \E w \in Workers, key \in ProbeKeys, fault \in StoreFaults \cup {""} :
          KeyExistsCall(w, key, fault)

NextFault == Publisher(WorkRequests) \/ \E w \in Workers : FaultWorker(w)

\* the blobs another writer leaves under an archive's key
BadBlobs == {JunkObject, CorruptObject({}), CorruptObject({<<NameA>>})}

NextFetch ==
    \/ Publisher(WorkRequests)
    \/ \E w \in Workers : Worker(w)
    \/ \E n \in 0..(MaxPublish - 1), blob \in BadBlobs :
          ReplaceBlob(ZipKey(Uuid4(n)), blob)

NextRound == Publisher(RoundRequests) \/ \E w \in Workers : Worker(w)

NextRestart ==
    \/ Next
    \/ \E w \in Workers : StopInFetch(w)
    \/ \E w \in Workers : Start(w)

\* the runner ids destroy is called with
AdminIds == {RunnerId, Foreign} \cup {Uuid4(n) : n \in 0..(MaxCalls - 1)}

NextAdmin ==
    \/ CreateCall
    \/ CreateQueue
    \/ CreateBucket
    \/ CreateBucketFails
    \/ \E runner_id \in AdminIds : DestroyCall(runner_id)
    \/ DeleteQueue
    \/ TerminateWorkers
    \/ CleanBucket
    \/ GetRunners

\* the arguments of register_workers and deregister_workers
WorkerArgs ==
    {ListArg(<< >>), ListArg(<<AddrA>>), ListArg(<<AddrB>>),
     ListArg(<<AddrA, AddrB>>), StrArg(AddrA), StrArg(AddrB)}

NextReg ==
    \/ \E arg \in WorkerArgs : RegisterWorkers(arg)
    \/ \E arg \in WorkerArgs : DeregisterWorkers(arg)
    \/ GetWorkers

NextPub == Publisher(PubRequests)

NextStore == \E w \in Workers : Caller(w)

NextPoll ==
    \/ Publisher(PollRequests)
    \/ \E w \in Workers : Poller(w)
    \/ \E i \in 1..(MaxMessages + 1) : Redeliver(i)

NextCrash ==
    \/ Next
    \/ \E w \in Workers : Terminate(w)
    \/ \E i \in 1..MaxMessages : Redeliver(i)

\* a queue() call that has begun runs to its end
FairPublisher == WF_vars(UploadBatch \/ QueueJob)

\* a worker process that is running takes its next step
FairWorkers == \A w \in Workers : WF_vars(Worker(w))

\* every visibility timeout runs out
FairQueue == \A i \in 1..MaxMessages : WF_vars(Redeliver(i))

Spec == Init /\ [][Next]_vars

\* the workers keep running and none fails
SpecLive == Init /\ [][Next]_vars /\ FairPublisher /\ FairWorkers

\* workers may be terminated; messages in flight come back
SpecCrash ==
    Init /\ [][NextCrash]_vars /\ FairPublisher /\ FairWorkers /\ FairQueue

\* the jobs of one batch, run by scripts that end with any status
SpecJob == Init /\ [][NextJob]_vars

\* key_exists called while a batch is published
SpecKey == InitKey /\ [][NextKey]_vars

\* the store may fail while workers fetch and store
SpecFault == Init /\ [][NextFault]_vars

\* the archive of a batch may be replaced by a blob that does not unpack
SpecFetch == Init /\ [][NextFetch]_vars

\* worker processes are stopped while they fetch, and started again
SpecRestart == Init /\ [][NextRestart]_vars

\* process() started with a working directory
SpecDir == InitDir /\ [][Next]_vars

\* store patterns on their way from queue_job to upload_files
SpecRound == Init /\ [][NextRound]_vars

\* runners are created, destroyed and listed
SpecAdmin == InitAdmin /\ [][NextAdmin]_vars

\* workers are registered, deregistered and listed
SpecReg == InitReg /\ [][NextReg]_vars

SpecPub == InitPub /\ [][NextPub]_vars

\* a get_job call that has begun takes its next step
FairPollers == \A w \in Workers : WF_vars(Receive(w) \/ ReceiveNone(w) \/ Delete(w))

SpecPoll == InitPoll /\ [][NextPoll]_vars /\ FairPollers

SpecStore == InitStore /\ [][NextStore]_vars

(* ------------------------------- claims ------------------------------- *)

Occurrences(seq, x) == Cardinality({k \in DOMAIN seq : seq[k] = x})

\* how many get_job calls, of all workers, returned message i
Returns(i) ==
    Cardinality({p \in Workers \X (1..MaxMessages) :
                    p[2] \in DOMAIN returned[p[1]] /\ returned[p[1]][p[2]] = i})

\* how many times, on all workers, the script of message i was run
Executions(i) ==
    Cardinality({p \in Workers \X (1..MaxMessages) :
                    p[2] \in DOMAIN executed[p[1]] /\ executed[p[1]][p[2]] = i})

\* C1: without redelivery, no job message is returned by two get_job calls,
\* and none is deleted from the queue without being returned by one
C1_ClaimExclusive ==
    \A i \in DOMAIN sqs :
        /\ Returns(i) <= 1
        /\ sqs[i].state = "deleted" => Returns(i) = 1
        /\ (sqs[i].state = "inflight" /\ Returns(i) = 0)
              => pc[sqs[i].holder] = "delete" /\ msg[sqs[i].holder] = i

C1_Witness ==
    /\ Len(sqs) >= 2
    /\ \A w \in Workers : Len(returned[w]) >= 1
    /\ \A i \in DOMAIN sqs : Returns(i) = 1

\* a worker was terminated after get_job returned message i to it and
\* before process_job was through with it
KilledMidJob(i) ==
    \E w \in Workers :
        pc[w] = "terminated" /\ msg[w] = i /\ Occurrences(returned[w], i) > 0

\* a worker was terminated between receive_messages and message.delete()
HeldByTerminated(i) ==
    /\ i \in DOMAIN sqs
    /\ sqs[i].state = "inflight"
    /\ pc[sqs[i].holder] = "terminated"

\* C2 as stated: a job whose worker was terminated after claiming it and
\* before finishing it becomes claimable again. The queue never hands out a
\* deleted message, so the job's message must still be in the queue
C2_Original ==
    \A i \in DOMAIN sqs :
        KilledMidJob(i) => sqs[i].state \in {"inflight", "visible"}

\* C2: a message whose receiver was terminated before deleting it becomes
\* visible again; a message get_job has returned is deleted, so it never
\* becomes claimable again, whatever happens to the worker
C2_Resurfaced ==
    /\ \A i \in 1..MaxMessages :
          [](HeldByTerminated(i) => <>(i \in Visible(sqs)))
    /\ [](\A i \in DOMAIN sqs : Returns(i) > 0 => sqs[i].state = "deleted")

C2_Witness ==
    \E w, v \in Workers : \E i \in DOMAIN sqs :
        /\ w # v
        /\ pc[w] = "terminated" /\ msg[w] = i /\ Occurrences(returned[w], i) = 0
        /\ Occurrences(returned[v], i) = 1

\* C3: while some worker keeps running the loop, every message sent is
\* executed in the end; an executed message is deleted from the queue and
\* was executed once
C3_ExecutedOnce ==
    /\ [](\E w \in Workers : pc[w] # "stopped")
          => \A i \in 1..MaxMessages :
                [](i \in DOMAIN sqs => <>(Executions(i) >= 1))
    /\ [](\A i \in DOMAIN sqs :
            Executions(i) >= 1 => sqs[i].state = "deleted" /\ Executions(i) = 1)

C3_Witness ==
    /\ pub.pc = "done"
    /\ \A i \in DOMAIN sqs : Executions(i) = 1 /\ sqs[i].state = "deleted"

\* the snapshot of a batch directory: what the archive held, and .contents
Snapshot(batch_id) == bucket[ZipKey(batch_id)].members \cup {<<NameContents>>}

\* restore_contents is done and process_job returns
RestoreStep(w) == pc[w] = "store" /\ pc'[w] = "poll"

C5_Pristine ==
    \A w \in Workers :
        pc[w] = "execute" =>
            disk[w][job[w]["Batch"][1]] = Snapshot(job[w]["Batch"][1])

\* C6: over the overwrite=False calls of one caller each key is uploaded at
\* most once, and such a call uploads no key the bucket held when it began
C6_IdempotentStore ==
    \A w \in Workers :
        /\ \A e \in DOMAIN uploaded[w] :
              ~e.overwrite =>
                /\ uploaded[w][e] = 1
                /\ \A d \in DOMAIN uploaded[w] :
                      (~d.overwrite /\ d.key = e.key) => d = e
        /\ (pc[w] = "put" /\ ~up[w].overwrite) =>
              FileKey(up[w].batch_id, up[w].cur[Len(up[w].cur)])
                  \notin up[w].present

\* a second overwrite=False call has walked all matching files and put
\* nothing, the first one having put a key
C6_Witness ==
    \E w \in Workers :
        /\ calls[w] = 2 /\ pc[w] = "store" /\ up[w].direct
        /\ ~up[w].overwrite /\ up[w].todo = {}
        /\ Matching(disk[w][up[w].batch_id], StoreNc) # {}
        /\ \E e \in DOMAIN uploaded[w] : e.call = 1 /\ ~e.overwrite
        /\ \A e \in DOMAIN uploaded[w] : e.call = 1

\* C7: an upload_file of an overwrite=False call never replaces an object
\* that is in the bucket
C7_NeverOverwritten ==
    [][\A w \in Workers :
        (pc[w] = "put" /\ pc'[w] = "store" /\ ~up[w].overwrite) =>
            FileKey(up[w].batch_id, up[w].cur[Len(up[w].cur)])
                \notin DOMAIN bucket]_vars

\* the queue() call has ended, by returning or by raising
Ended == pub.pc \in {"done", "failed"}

Distinct(files) == Cardinality({files[i] : i \in DOMAIN files}) = Len(files)

\* the directories that hold all the files; '/' holds every absolute path
CommonDirs(files) ==
    {p \in {SubSeq(files[1], 1, n) : n \in 1..Len(files[1]) - 1} :
        \A i \in DOMAIN files : Len(p) < Len(files[i]) /\ IsPrefix(p, files[i])}

DeepestCommonDir(files) ==
    CHOOSE p \in CommonDirs(files) : \A q \in CommonDirs(files) : Len(q) <= Len(p)

\* N >= 2 distinct files that share a common root directory
SharedRootInput(files) ==
    Len(files) >= 2 /\ Distinct(files) /\ CommonDirs(files) # {}

\* one archive uploaded and one message per file sent, all with the batch's
\* id, with pairwise distinct commands, each the template with the file's
\* path relative to the common directory filled in
PublishedAll ==
    LET files == pub.req.files
        root == DeepestCommonDir(files)
    IN  /\ pub.pc = "done"
        /\ pub.puts = 1
        /\ ZipKey(pub.batch_id) \in DOMAIN bucket
        /\ Len(pub.sent) = Len(files)
        /\ \A k \in DOMAIN pub.sent :
              LET a == sqs[pub.sent[k]].attrs
              IN  /\ a["Batch"].StringValue = << pub.batch_id >>
                  /\ a["Command"].StringValue =
                        Format(pub.req.command, PathStr(RelPath(files[k], root)))
                  /\ \A j \in DOMAIN pub.sent :
                        j # k => sqs[pub.sent[j]].attrs["Command"].StringValue
                                    # a["Command"].StringValue

C9_Original ==
    (Ended /\ pub.req.files = << >>) =>
        pub.err = "EmptyBatchError" /\ pub.puts = 0 /\ pub.sent = << >>

\* C9: an empty list of files raises ValueError (in find_root); nothing is
\* uploaded, no archive is written and nothing is sent
C9_EmptyRaises ==
    (Ended /\ pub.req.files = << >>) =>
        /\ pub.pc = "failed" /\ pub.err = "ValueError"
        /\ pub.puts = 0 /\ pub.sent = << >>
        /\ pub.batch_id = ""

C9_Witness == pub.pc = "failed" /\ pub.req.files = << >>

\* C10: publishing one file uploads one archive and sends one message
C10_SingleFile ==
    (Ended /\ Len(pub.req.files) = 1) =>
        pub.pc = "done" /\ pub.puts = 1 /\ Len(pub.sent) = 1

\* a get_job call made on its own has returned to its caller
GetJobReturned(w) == obs[w].direct /\ pc[w] = "api" /\ obs[w].ret # ""

C12_DeletedBeforeReturn ==
    \A w \in Workers :
        (pc[w] \in {"fetch", "execute", "store", "put"} \/ job[w] # NoJob) =>
            /\ msg[w] \in DOMAIN sqs
            /\ sqs[msg[w]].state = "deleted"

C12_Witness ==
    \E w, v \in Workers :
        /\ pc[w] = "fetch" /\ sqs[msg[w]].state = "deleted"
        /\ pc[v] = "execute" /\ sqs[msg[v]].state = "deleted"

\* worker w receives message i in this step
Receives(w, i) ==
    /\ sqs[i].state = "visible"
    /\ sqs'[i].state = "inflight" /\ sqs'[i].holder = w

\* C13: a message whose body is not 'execution' is never deleted and never
\* returned by get_job, and the attempt that receives it is followed by the
\* sleep of an unsuccessful attempt
C13_OnlyMarker ==
    /\ [](\A i \in DOMAIN sqs :
            sqs[i].body # "execution" =>
                /\ sqs[i].state # "deleted"
                /\ Returns(i) = 0
                /\ \A w \in Workers : ~(pc[w] = "delete" /\ msg[w] = i))
    /\ [][\A w \in Workers : \A i \in DOMAIN sqs :
            (sqs[i].body # "execution" /\ Receives(w, i)) =>
                /\ obs'[w].receives = obs[w].receives + 1
                /\ obs'[w].sleeps = obs[w].sleeps + 1
                /\ pc'[w] \in {"poll", "api"}
                /\ pc'[w] = "api" => obs'[w].ret = "None"]_vars

C13_Witness ==
    \E w \in Workers : \E i, j \in DOMAIN sqs :
        /\ sqs[i].body = "other" /\ sqs[i].state = "inflight"
        /\ sqs[i].holder = w
        /\ GetJobReturned(w) /\ obs[w].ret = "None"
        /\ sqs[j].body = "execution"

\* C14: every message queue_job has sent has body 'execution' and the
\* attributes Runner, Batch and Command; it has PreProcessing, PostProcessing
\* and Store exactly if that argument of the call was non-empty, Store being
\* the patterns joined by '|', and no attribute of it has an empty value
C14_MessageAttributes ==
    \A k \in DOMAIN pub.sent :
        LET m == sqs[pub.sent[k]]
            names == DOMAIN m.attrs
            req == pub.req
        IN  /\ m.body = "execution"
            /\ {"Runner", "Batch", "Command"} \subseteq names
            /\ names \subseteq {"Runner", "Batch", "Command", "PreProcessing",
                                "PostProcessing", "Store"}
            /\ "PreProcessing" \in names <=> req.preprocessing # << >>
            /\ "PostProcessing" \in names <=> req.postprocessing # << >>
            /\ "Store" \in names <=> req.store_patterns # << >>
            /\ "PreProcessing" \in names =>
                  m.attrs["PreProcessing"].StringValue = req.preprocessing
            /\ "PostProcessing" \in names =>
                  m.attrs["PostProcessing"].StringValue = req.postprocessing
            /\ "Store" \in names =>
                  Split(m.attrs["Store"].StringValue, "|") = req.store_patterns
            /\ \A n \in names :
                  /\ m.attrs[n].StringValue # << >>
                  /\ m.attrs[n].DataType = "String"

\* two messages with all three optional attributes, Store of two patterns
C14_Witness ==
    /\ pub.pc = "done"
    /\ Len(pub.sent) = 2
    /\ Len(pub.req.store_patterns) = 2
    /\ \A k \in DOMAIN pub.sent :
          {"PreProcessing", "PostProcessing", "Store"}
              \subseteq DOMAIN sqs[pub.sent[k]].attrs

\* the batch ids in use
BatchIds == {b[1] : b \in {k \in DOMAIN bucket : bucket[k].kind = "zip"}}

\* C15: a worker downloads a batch only when its directory does not exist:
\* a job whose batch directory exists goes from get_job straight to
\* executing, and no worker downloads a batch twice
C15_DownloadedOnce ==
    /\ [](\A w \in Workers : \A b \in BatchIds :
            /\ Count(obs[w].fetched, b) <= 1
            /\ b \in DOMAIN disk[w] => Count(obs[w].fetched, b) = 1)
    /\ [][\A w \in Workers : \A b \in BatchIds :
            /\ (pc[w] = "delete" /\ pc'[w] # "delete" /\ b \in DOMAIN disk[w]
                    /\ job'[w]["Batch"] = <<b>>)
                  => pc'[w] = "execute"
            /\ Count(obs'[w].fetched, b) > Count(obs[w].fetched, b)
                  => b \notin DOMAIN disk[w]]_vars

\* a worker has run two jobs of a batch that it downloaded once
C15_Witness ==
    \E w \in Workers : \E b \in BatchIds :
        /\ Len(executed[w]) >= 2
        /\ \A k \in DOMAIN executed[w] :
              sqs[executed[w][k]].attrs["Batch"].StringValue = <<b>>
        /\ Count(obs[w].fetched, b) = 1

\* worker w is in the last turn of get_job's loop
LastTurn(w) == pc[w] = "poll" /\ ~MorePolls(tries[w])

\* worker w takes no step
Idle(w) == pc'[w] = pc[w] /\ tries'[w] = tries[w] /\ msg'[w] = msg[w]

\* C16: with stop_on_empty set, a last turn of get_job that receives no job
\* stops the loop, a stopped worker stays stopped and receives nothing more,
\* and every worker stops in the end; with stop_on_empty unset no worker
\* ever stops, and a last turn that receives no job is followed by the
\* first turn of the next get_job
C16_StopOnEmpty ==
    /\ [][\A w \in Workers :
            /\ pc[w] = "stopped" =>
                  /\ pc'[w] = "stopped"
                  /\ \A i \in DOMAIN sqs : ~Receives(w, i)
            /\ (LastTurn(w) /\ stop_on_empty) =>
                  Idle(w) \/ pc'[w] \in {"delete", "stopped"}
            /\ (LastTurn(w) /\ ~stop_on_empty) =>
                  \/ Idle(w)
                  \/ pc'[w] = "delete"
                  \/ pc'[w] = "poll" /\ tries'[w] = 0]_vars
    /\ [](~stop_on_empty => \A w \in Workers : pc[w] # "stopped")
    /\ stop_on_empty => \A w \in Workers : <>[](pc[w] = "stopped")

\* a worker has run a job and has stopped at the empty queue after it
C16_Witness ==
    /\ stop_on_empty
    /\ \E w \in Workers : pc[w] = "stopped" /\ Len(executed[w]) >= 1

\* the job whose script worker w ran last
LastJob(w) == parse_message(sqs[executed[w][Len(executed[w])]])

NotEmptyLine(l) == l # << >>

Bit(b) == IF b THEN 1 ELSE 0

\* C17: the script a worker has run is, leaving empty lines aside, the
\* shebang line, the PreProcessing line iff the job has that attribute, one
\* line with the job's Command, and the PostProcessing line iff the job has
\* that attribute; the file was executable when it was run, and the
\* working directory of the run was the batch directory
C17_Script ==
    \A w \in Workers :
        executed[w] # << >> =>
            LET m == LastJob(w)
                lines == SelectSeq(obs[w].ran.lines, NotEmptyLine)
                pre == has_key(m, "PreProcessing")
                post == has_key(m, "PostProcessing")
                k == 2 + Bit(pre)
            IN  /\ Len(lines) = k + Bit(post)
                /\ lines[1] = Shebang
                /\ pre => lines[2] = m["PreProcessing"]
                /\ lines[k] = m["Command"]
                /\ post => lines[k + 1] = m["PostProcessing"]
                /\ obs[w].ran.lines[1] = Shebang
                /\ obs[w].ran.mode = "0744"
                /\ obs[w].ran.cwd = BatchPath(m["Batch"][1])

\* a worker has run the script of a job that has both optional attributes
C17_Witness ==
    \E w \in Workers :
        /\ executed[w] # << >>
        /\ has_key(LastJob(w), "PreProcessing")
        /\ has_key(LastJob(w), "PostProcessing")
        /\ Len(obs[w].ran.lines) = 5

\* worker w runs a script in this step
RunsScript(w) == executed'[w] # executed[w]

\* C18: whatever status the script ends with, process_job raises nothing:
\* a job with Store enters upload_files with the files that match its
\* patterns, a job without returns True, and process_job returns True after
\* restore_contents, so that the loop goes on even with stop_on_empty set
C18_StatusIgnored ==
    /\ [][\A w \in Workers :
            /\ RunsScript(w) =>
                  LET batch_id == job[w]["Batch"][1]
                  IN  /\ obs'[w].ran.status \in ExitCodes
                      /\ has_key(job[w], "Store") =>
                            /\ pc'[w] = "store"
                            /\ up'[w].batch_id = batch_id
                            /\ up'[w].todo =
                                  Matching(disk'[w][batch_id],
                                           Split(job[w]["Store"], "|"))
                      /\ ~has_key(job[w], "Store") => pc'[w] = "poll"
            /\ (pc[w] = "store" /\ pc'[w] \notin {"store", "put"}) =>
                  pc'[w] = "poll"]_vars
    /\ [](\A w \in Workers : pc[w] # "crashed")

\* with stop_on_empty set, a worker whose script ended with status 1 has
\* uploaded a result and is polling again
C18_Witness ==
    /\ stop_on_empty
    /\ \E w \in Workers :
          /\ obs[w].ran.status = 1
          /\ DOMAIN uploaded[w] # {}
          /\ pc[w] = "poll"

\* process_job of worker w was ended by an error of the store
TransportError(w) == pc[w] = "crashed" /\ obs[w].code \in StoreFaults

\* C19: after an error of the store in Fetching or Storing no later phase
\* of the job runs (its script is not run, nothing more is uploaded, the
\* batch directory is not restored), and the worker can take the next
\* step of its loop
C19_AbortsOnlyJob ==
    /\ [][\A w \in Workers :
            TransportError(w) =>
                /\ executed'[w] = executed[w]
                /\ uploaded'[w] = uploaded[w]
                /\ disk'[w] = disk[w]]_vars
    /\ [](\A w \in Workers :
            TransportError(w) => ENABLED << FaultWorker(w) >>_vars)

\* worker w gets an answer from key_exists in this step
Asks(w) == calls'[w] # calls[w] /\ obs'[w].key # << >>

\* C20: key_exists returns False exactly when load() failed with code 404,
\* True exactly when load() succeeded, and raises for every other code; a
\* store that answers says 404 for a key it does not hold and lets a key
\* it holds load
C20_KeyExists ==
    /\ [](\A w \in Workers :
            obs[w].key # << >> =>
                /\ obs[w].ret = "False" <=> obs[w].code = "404"
                /\ obs[w].ret = "True" <=> obs[w].code = "200"
                /\ obs[w].ret = "raise" <=> obs[w].code \notin {"200", "404"}
                /\ obs[w].ret \in {"False", "True", "raise"})
    /\ [][\A w \in Workers :
            Asks(w) =>
                /\ obs'[w].ret = "True" => obs'[w].key \in DOMAIN bucket
                /\ obs'[w].ret = "False" => obs'[w].key \notin DOMAIN bucket]_vars

\* one caller has been told that the archive exists, the other has seen
\* key_exists raise
C20_Witness ==
    \E w, v \in Workers :
        /\ obs[w].key = ZipKey(Uuid4(0)) /\ obs[w].ret = "True"
        /\ obs[v].key # << >> /\ obs[v].ret = "raise" /\ obs[v].code = "500"

\* the blob worker w is about to download is a valid archive
ValidArchive(w) ==
    LET zfile == ZipKey(job[w]["Batch"][1])
    IN  zfile \in DOMAIN bucket /\ bucket[zfile].kind = "zip"

\* C21: for a blob that is not a valid archive download_batch ends with an
\* error, and the job does not go on to run its script
C21_FormatError ==
    [][\A w \in Workers :
        (pc[w] = "fetch" /\ pc'[w] \notin {"fetch", "terminated"}
                /\ ~ValidArchive(w)) =>
            /\ obs'[w].dl \notin {"", "None"}
            /\ pc'[w] # "execute"]_vars

\* C22: when download_batch has ended, with or without an error, no copy
\* of an archive is left in the working directory
C22_ArchiveReleased ==
    \A w \in Workers : pc[w] # "fetch" => obs[w].zips = {}

\* the administering client's last call was `op` and has returned
Completed(op) == adm.pc = "idle" /\ adm.done # << >> /\ adm.done[1] = op

\* C23 as stated: after create has returned the queue and the bucket of
\* the runner both exist, after destroy has returned neither exists
C23_Original ==
    /\ Completed("create") =>
          adm.done[2] \in aws.queues /\ adm.done[2] \in aws.buckets
    /\ Completed("destroy") =>
          adm.done[2] \notin aws.queues /\ adm.done[2] \notin aws.buckets

\* destroy is at work
Destroying == adm.pc \in {"delete_queue", "terminate", "clean"}

\* C23, amended: after create has returned the queue and the bucket of the
\* runner both exist; after destroy has returned the runner's queue does
\* not exist and none of its instances runs, and destroy deletes no bucket:
\* it deletes the archives and the objects with a key that begins with '_'
\* and keeps every other object
C23_QueueDestroyedBucketKept ==
    /\ [](Completed("create") =>
            adm.done[2] \in aws.queues /\ adm.done[2] \in aws.buckets)
    /\ [](Completed("destroy") =>
            /\ adm.done[2] \notin aws.queues
            /\ adm.done[2] \notin aws.running
            /\ adm.done[2] = RunnerId =>
                  \A k \in DOMAIN bucket : ~Cleaned(k))
    /\ [][Destroying =>
            /\ aws'.buckets = aws.buckets
            /\ \A k \in DOMAIN bucket :
                  ~Cleaned(k) => k \in DOMAIN bucket' /\ bucket'[k] = bucket[k]]_vars

\* destroy has returned for the runner: its queue is gone, its bucket is
\* there and holds the result, and no archive or registration
C23_Witness ==
    /\ Completed("destroy")
    /\ adm.done[2] = RunnerId
    /\ RunnerId \notin aws.queues
    /\ RunnerId \in aws.buckets
    /\ DOMAIN bucket = {FileKey(StoreBatch, NameD)}

\* C24: get_runners returns the ids that name both a queue and a bucket of
\* the account, all of them and no other
C24_GetRunners ==
    Completed("get_runners") =>
        /\ \A id \in aws.queues \cup aws.buckets :
              id \in adm.ret <=> (id \in aws.queues /\ id \in aws.buckets)
        /\ adm.ret \subseteq aws.queues \cup aws.buckets

\* get_runners has returned the runner just created, and neither the name
\* that has a queue only nor the name that has a bucket only
C24_Witness ==
    /\ Completed("get_runners")
    /\ adm.ret = {Uuid4(0)}
    /\ \E id \in aws.queues : id \notin aws.buckets
    /\ \E id \in aws.buckets : id \notin aws.queues

\* C25: get_workers returns the addresses whose last operation was a
\* registration
C25_Registered ==
    Completed("get_workers") =>
        adm.ret = {a \in DOMAIN adm.last : adm.last[a] = "registered"}

\* the prefixes of segments that all the paths have
CommonPrefixes(files) ==
    {p \in {SubSeq(files[1], 1, n) : n \in 0..Len(files[1])} :
        \A i \in DOMAIN files : IsPrefix(p, files[i])}

LongestCommonPrefix(files) ==
    CHOOSE p \in CommonPrefixes(files) :
        \A q \in CommonPrefixes(files) : Len(q) <= Len(p)

\* C26: for two or more distinct absolute file paths find_root raises
\* nothing and returns the longest prefix of segments that all paths have
C26_FindRoot ==
    (pub.req # NoRequest /\ Len(pub.req.files) >= 2 /\ Distinct(pub.req.files))
        => /\ pub.err # "ValueError"
           /\ pub.root = LongestCommonPrefix(pub.req.files)

\* find_root has returned /data for files of /data/run and /data/alt
C26_Witness ==
    /\ pub.req.files = << FileA, << << >>, SegData, SegAlt, NameE >> >>
    /\ pub.root = << << >>, SegData >>
    /\ pub.pc = "done"

\* two or more distinct files that have no directory below '/' in common
RootOnly(files) ==
    /\ Len(files) >= 2
    /\ Distinct(files)
    /\ LongestCommonPrefix(files) = << << >> >>

\* C27 as stated: publishing files that have only '/' in common raises
\* AmbiguousRootError, uploads nothing and sends nothing
C27_Original ==
    (Ended /\ RootOnly(pub.req.files)) =>
        /\ pub.pc = "failed" /\ pub.err = "AmbiguousRootError"
        /\ pub.puts = 0 /\ pub.sent = << >>

\* C27, amended: publishing files that have only '/' in common raises
\* OSError in upload_batch, uploads nothing and sends nothing, and leaves
\* the archive file it had opened on the publisher's disk; no archive that
\* is uploaded was made of '/'
C27_RootNeverArchived ==
    /\ (Ended /\ RootOnly(pub.req.files)) =>
            /\ pub.pc = "failed" /\ pub.err = "OSError"
            /\ pub.puts = 0 /\ pub.sent = << >>
            /\ pub.batch_id = ""
            /\ pubtmp # {}
    /\ pub.puts > 0 => Len(pub.root) >= 2

\* queue() has failed for /top.txt and a file of /data/run
C27_Witness ==
    /\ pub.pc = "failed"
    /\ pub.req.files = << << << >>, NameTop >>, FileA >>
    /\ pub.root = << << >> >>
    /\ bucket = << >>

\* the files of the publisher's tree below `root`, as paths relative to it
TreeFiles(root) == {RelPath(f, root) : f \in {g \in PubFiles : IsPrefix(root, g)}}

\* the name of a file matches an exclude pattern
Excluded(f) == AnyMatch(ExcludePatterns, f[Len(f)])

\* worker w ends download_batch for the batch the publisher has packed
Unpacks(w) ==
    /\ pc[w] = "fetch"
    /\ pc'[w] = "execute"
    /\ job[w]["Batch"] = << pub.batch_id >>

ReturnsFromUpload(w) ==
    pc[w] = "store" /\ pc'[w] = "api" /\ up[w].direct /\ ~up[w].overwrite

\* the keys caller w has put in its current call
PutInCall(w) == {e.key : e \in {d \in DOMAIN uploaded[w] : d.call = calls[w]}}

\* C29: when upload_files returns with overwrite=False, the key
\* batch_id/name of every file of the batch directory whose name matches an
\* include pattern is in the bucket, and every key the call has put is the
\* key of such a file; a call for which no file matches puts nothing
C29_MatchingStored ==
    [][\A w \in Workers :
        ReturnsFromUpload(w) =>
            LET files == disk[w][up[w].batch_id]
                wanted == {FileKey(up[w].batch_id, f[Len(f)]) :
                            f \in {g \in files :
                               AnyMatch(up[w].include_patterns, g[Len(g)])}}
            IN  /\ wanted \subseteq DOMAIN bucket'
                /\ PutInCall(w) \subseteq wanted]_vars

\* one caller has walked a directory in which nothing matches '.log' and
\* has put nothing, the other has put the key of d.nc; both are about to
\* return
C29_Witness ==
    \E w, v \in Workers :
        /\ pc[w] = "store" /\ up[w].direct /\ ~up[w].overwrite
        /\ up[w].todo = {} /\ up[w].include_patterns = StoreLog
        /\ PutInCall(w) = {}
        /\ pc[v] = "store" /\ up[v].direct /\ ~up[v].overwrite
        /\ up[v].todo = {} /\ up[v].include_patterns = StoreNc
        /\ PutInCall(v) = {FileKey(StoreBatch, NameD)}

\* the phase of process() a worker is in
Phase(w) ==
    CASE pc[w] \in {"poll", "delete"} -> "Polling"
      [] pc[w] = "fetch" -> "Fetching"
      [] pc[w] = "execute" -> "Executing"
      [] pc[w] \in {"store", "put"} -> "Storing"
      [] OTHER -> "Stopped"

\* the phases that may follow a phase within process()
PhaseOrder ==
    {<<"Polling", "Fetching">>, <<"Polling", "Executing">>,
     <<"Fetching", "Executing">>, <<"Executing", "Storing">>,
     <<"Executing", "Polling">>, <<"Storing", "Polling">>,
     <<"Polling", "Stopped">>, <<"Fetching", "Stopped">>,
     <<"Executing", "Stopped">>, <<"Storing", "Stopped">>}

\* the script of the job in hand has been run
ScriptFinished(w) ==
    /\ executed[w] # << >>
    /\ executed[w][Len(executed[w])] = msg[w]
    /\ obs[w].ran # NoRun

\* C30: a worker passes its phases in the order Polling, Fetching,
\* Executing, Storing; a script is run only in a batch directory that is on
\* the disk, a file is uploaded only after the script of the job has run, and
\* files are deleted only when the walk of upload_files has ended, every
\* deleted file that matches a store pattern having its key in the bucket
C30_PhaseOrder ==
    [][\A w \in Workers :
        /\ Phase(w)' # Phase(w) => <<Phase(w), Phase(w)'>> \in PhaseOrder
        /\ executed'[w] # executed[w] =>
              /\ Phase(w) = "Executing"
              /\ job[w]["Batch"][1] \in DOMAIN disk[w]
              /\ <<NameContents>> \in disk[w][job[w]["Batch"][1]]
        /\ (uploaded'[w] # uploaded[w] \/ pc'[w] = "put") =>
              /\ Phase(w) = "Storing"
              /\ ScriptFinished(w)
        /\ \A b \in DOMAIN disk[w] :
              disk'[w][b] # disk[w][b] /\ disk[w][b] \ disk'[w][b] # {} =>
                /\ Phase(w) = "Storing"
                /\ ScriptFinished(w)
                /\ up[w].todo = {}
                /\ \A f \in Matching(disk[w][b] \ disk'[w][b],
                                      Split(job[w]["Store"], "|")) :
                      FileKey(b, f[Len(f)]) \in DOMAIN bucket]_vars

\* the walk of upload_files has ended with an output file uploaded and still
\* on the disk, restore_contents is next
C30_Witness ==
    \E w \in Workers :
        /\ pc[w] = "store"
        /\ ~up[w].direct
        /\ up[w].todo = {}
        /\ ScriptFinished(w)
        /\ <<NameD>> \in disk[w][up[w].batch_id]
        /\ \E e \in DOMAIN uploaded[w] :
              e.key = FileKey(up[w].batch_id, NameD) /\ e.call = calls[w]

\* worker w stores the results of a job of the batch published last
StoresCurrent(w) ==
    /\ pc[w] \in {"store", "put"}
    /\ ~up[w].direct
    /\ job[w]["Batch"] = << pub.batch_id >>

\* C31: the list of patterns a worker passes to upload_files for a job is
\* the list of store patterns queue_job was given for that job
C31_StoreRoundTrip ==
    \A w \in Workers :
        StoresCurrent(w) => up[w].include_patterns = pub.req.store_patterns

\* the message of worker w's job is the k-th the publisher has sent for the
\* batch published last
SentAs(w, k) == k \in DOMAIN pub.sent /\ pub.sent[k] = msg[w]

\* C32: the job get_job has returned has the attribute names of the message
\* queue_job sent and their string values, which are the arguments queue_job
\* was called with: nothing is added, dropped or altered
C32_ClaimRoundTrip ==
    \A w \in Workers :
        job[w] # NoJob =>
            LET m == sqs[msg[w]]
                req == pub.req
            IN  /\ DOMAIN job[w] = DOMAIN m.attrs
                /\ \A n \in DOMAIN job[w] : job[w][n] = m.attrs[n].StringValue
                /\ \A k \in 1..MaxMessages :
                      SentAs(w, k) =>
                        /\ DOMAIN job[w] =
                              {"Runner", "Batch", "Command"}
                              \cup (IF req.preprocessing # << >>
                                    THEN {"PreProcessing"} ELSE {})
                              \cup (IF req.postprocessing # << >>
                                    THEN {"PostProcessing"} ELSE {})
                              \cup (IF req.store_patterns # << >>
                                    THEN {"Store"} ELSE {})
                        /\ job[w]["Runner"] = << RunnerId >>
                        /\ job[w]["Batch"] = << pub.batch_id >>
                        /\ job[w]["Command"] =
                              Format(req.command,
                                     PathStr(RelPath(req.files[k], pub.root)))
                        /\ has_key(job[w], "PreProcessing") =>
                              job[w]["PreProcessing"] = req.preprocessing
                        /\ has_key(job[w], "PostProcessing") =>
                              job[w]["PostProcessing"] = req.postprocessing
                        /\ has_key(job[w], "Store") =>
                              job[w]["Store"] = Join(<<"|">>, req.store_patterns)

\* a worker holds a job with every optional field, another a job of the same
\* batch
C32_Witness ==
    \E w, v \in Workers :
        /\ w # v
        /\ job[w] # NoJob /\ SentAs(w, 1)
        /\ job[v] # NoJob /\ SentAs(v, 2)
        /\ {"PreProcessing", "PostProcessing", "Store"} \subseteq DOMAIN job[w]

\* destroy's walk over the buckets is done in this step
CleansBucket == adm.pc = "clean" /\ adm'.pc = "idle"

\* C33: destroy deletes the queue of the runner, and of the objects of the
\* runner's bucket those with a key that ends in '.zip' or begins with '_',
\* all of them and no other; what it keeps it keeps unchanged, and a destroy
\* of another runner deletes no object of this bucket
C33_DestroyFrame ==
    [][/\ CleansBucket =>
            LET gone == DOMAIN bucket \ DOMAIN bucket'
            IN  /\ adm.id \notin aws'.queues
                /\ DOMAIN bucket' \subseteq DOMAIN bucket
                /\ \A k \in DOMAIN bucket' : bucket'[k] = bucket[k]
                /\ adm.id = RunnerId =>
                      gone = {k \in DOMAIN bucket :
                                k[Len(k)] = ".zip" \/ k[1] = "_"}
                /\ adm.id # RunnerId => gone = {}
       /\ (Destroying /\ ~CleansBucket) => bucket' = bucket]_vars

\* destroy has returned for the runner after a destroy of another runner:
\* the result is in the bucket, the archive and the registration are not
C33_Witness ==
    /\ Completed("destroy")
    /\ adm.done[2] = RunnerId
    /\ adm.calls = 2
    /\ FileKey(StoreBatch, NameD) \in DOMAIN bucket
    /\ ZipKey(StoreBatch) \notin DOMAIN bucket
    /\ (WorkerPrefix \o AddrA) \notin DOMAIN bucket

\* C34: the script of a job runs in the directory workingdir/batchId of the
\* working directory process() was given
C34_WorkingDir ==
    \A w \in Workers :
        (pc[w] \in {"store", "put"} /\ ~up[w].direct) =>
            obs[w].ran.cwd =
                PathStr(abspath(path_join(workingdir, job[w]["Batch"])))

\* the batch a message of the queue refers to
BatchOf(i) == sqs[i].attrs["Batch"].StringValue[1]

\* C35: the archive of the batch of every job message in the queue is in the
\* bucket from the moment the message is sent, and no worker that has
\* claimed a job fails to find the archive of its batch
C35_ArchiveBeforeJob ==
    /\ \A i \in JobMessages(sqs) :
          /\ ZipKey(BatchOf(i)) \in DOMAIN bucket
          /\ bucket[ZipKey(BatchOf(i))].kind = "zip"
    /\ \A w \in Workers :
          /\ obs[w].dl # "ClientError"
          /\ pc[w] = "fetch" => key_exists(bucket, ZipKey(job[w]["Batch"][1]))

\* a worker fetches the batch of the first job while the publisher has not
\* yet sent the last job of that batch
C35_Witness ==
    \E w \in Workers :
        /\ pc[w] = "fetch"
        /\ pub.pc = "enqueue"
        /\ job[w]["Batch"] = << pub.batch_id >>

\* C36: the batch directory of a job that a worker runs or stores holds the
\* snapshot .contents, whether the worker has made the directory for this
\* job or found it on its disk
C36_SnapshotPresent ==
    \A w \in Workers :
        (pc[w] \in {"execute", "store", "put"} /\ ~up[w].direct) =>
            /\ job[w]["Batch"][1] \in DOMAIN disk[w]
            /\ <<NameContents>> \in disk[w][job[w]["Batch"][1]]

\* the walk of upload_files in process_job passes a matching file without
\* uploading it, as the key made of its name is in the bucket
SkipsFile(w) ==
    /\ pc[w] = "store" /\ pc'[w] = "store"
    /\ ~up[w].direct
    /\ up'[w].todo # up[w].todo

\* C37: the matching files of a batch directory have keys of their own: no
\* matching file that a job has written is passed over by upload_files
\* because the bucket holds its key, and the object under the key of a
\* file is the one uploaded for the job that wrote it
C37_DistinctKeys ==
    [][\A w \in Workers : ~SkipsFile(w)]_vars

\* the files of a batch directory whose path is a line of its snapshot
Listed(w, b) == {f \in disk[w][b] : AbsPath(b, f) \in cachefile[w][b]}

\* C38: restore_contents keeps the files whose path is listed in the
\* snapshot and deletes every other file of the batch directory; .contents
\* is listed and stays, run.sh is not listed and goes
C38_RestoreExact ==
    [][\A w \in Workers :
        (RestoreStep(w) /\ <<NameContents>> \in disk[w][up[w].batch_id]) =>
            LET b == up[w].batch_id
            IN  /\ disk'[w][b] = Listed(w, b)
                /\ <<NameContents>> \in disk'[w][b]
                /\ <<NameRun>> \in disk[w][b]
                /\ <<NameRun>> \notin disk'[w][b]]_vars

====
